---- MODULE Spec2Model ----
(***************************************************************************)
(* Model of the railway precedence-decision engine:                        *)
(*   core/models.py    Train, Section, Decision, OptimizationResult        *)
(*   core/optimizer.py RailwayOptimizer.optimize and its helpers           *)
(* One call of optimize is a run of the state machine below; the CP-SAT    *)
(* solve is a nondeterministic choice among the assignments that satisfy   *)
(* the constraints the code adds to the model.                             *)
(***************************************************************************)
EXTENDS Integers, Sequences, FiniteSets, TLC

\* ------------------------------------------------------------------------
\* Bounds of the model
\* ------------------------------------------------------------------------
\* largest number of trains in a snapshot
MaxTrains == 3

\* longest decision list handed to the metrics
MaxDecisions == 2

\* largest number of trains in a snapshot handed to the metrics
MaxSnapshotTrains == 24

\* largest track count of a section
MaxTracks == 2

\* largest number of trains put into a section's current_trains
MaxOccupants == 2

\* largest number of calls of optimize that run interleaved on one instance
MaxCalls == 2

\* largest priority a caller passes to Train(...)
MaxPriorityArg == 5

\* ------------------------------------------------------------------------
\* Exact rationals: the code's floats (0.9, 20.0, N / 20.0) without rounding
\* ------------------------------------------------------------------------
RECURSIVE GCD(_, _)
GCD(a, b) == IF b = 0 THEN a ELSE GCD(b, a % b)

Q(n, d) == LET g == GCD(n, d) IN IF g = 0 THEN [n |-> 0, d |-> 1] ELSE [n |-> n \div g, d |-> d \div g]

QAdd(x, y) == Q(x.n * y.d + y.n * x.d, x.d * y.d)

QMul(x, y) == Q(x.n * y.n, x.d * y.d)

QLe(x, y) == x.n * y.d <= y.n * x.d

QMin(x, y) == IF QLe(x, y) THEN x ELSE y

\* ------------------------------------------------------------------------
\* core/models.py
\* ------------------------------------------------------------------------
None == "None"

\* `not v` for the values a dataclass field is tested with in __post_init__:
\* None, 0, "" and the empty list are falsy (the test is made on the printed
\* value, so that an id may be an integer or a string)
Falsy(v) == ToString(v) \in { ToString(None), ToString(0), ToString(""), ToString(<<>>) }

\* uuid4(): a fresh UUID, equal to no id a caller passes
uuid4 == "uuid4"

TrainType == {"express", "passenger", "freight", "special"}

TrainStatus == {"on_time", "delayed", "cancelled", "running", "stopped"}

\* priority_map.get(self.train_type, 1) of Train.__post_init__
PriorityMap(train_type) ==
    CASE train_type = "special" -> 4
      [] train_type = "express" -> 3
      [] train_type = "passenger" -> 2
      [] train_type = "freight" -> 1
      [] OTHER -> 1

\* (the mutant keeps a priority the caller passed)
TrainKeepingCallerPriority(id, train_type, max_speed, current_section, status, delay_minutes, priority) ==
    [id |-> IF Falsy(id) THEN uuid4 ELSE id,
     train_type |-> train_type, max_speed |-> max_speed,
     current_section |-> current_section,
     status |-> status, delay_minutes |-> delay_minutes,
     priority |-> IF priority # 1 THEN priority ELSE PriorityMap(train_type)]

\* Train(...): the dataclass constructor followed by __post_init__, which
\* replaces a falsy id by uuid4() and overwrites whatever priority the caller
\* passed
Train(id, train_type, max_speed, current_section, status, delay_minutes, priority) ==
    [id |-> IF Falsy(id) THEN uuid4 ELSE id,
     train_type |-> train_type, max_speed |-> max_speed,
     current_section |-> current_section,
     status |-> status, delay_minutes |-> delay_minutes,
     priority |-> PriorityMap(train_type)]

\* Train.is_delayed
is_delayed(train) == train.delay_minutes > 0

SectionStatus == {"available", "occupied", "maintenance", "blocked"}

\* Section(...): current_trains defaults to an empty list, __post_init__
\* replaces a falsy id by uuid4()
Section(id, max_speed_kmh, tracks, section_status) ==
    [id |-> IF Falsy(id) THEN uuid4 ELSE id, max_speed_kmh |-> max_speed_kmh, tracks |-> tracks,
     status |-> section_status, current_trains |-> <<>>]

\* Station(...): __post_init__ replaces a falsy id by uuid4()
Station(id, name, code, platforms, is_junction) ==
    [id |-> IF Falsy(id) THEN uuid4 ELSE id, name |-> name, code |-> code,
     platforms |-> platforms, is_junction |-> is_junction]

\* Section.is_available
is_available(sec) ==
    sec.status = "available" /\ Len(sec.current_trains) < sec.tracks

\* Section.can_accommodate
\* (the mutant refuses a train whose max_speed equals the section's)
CanAccommodateOnlySlower(sec, train) ==
    is_available(sec) /\ train.max_speed < sec.max_speed_kmh

can_accommodate(sec, train) ==
    is_available(sec) /\ train.max_speed <= sec.max_speed_kmh

\* The id argument of a dataclass constructor call that leaves it out
Missing == "Missing"

\* Decision(...): id is the first field of the dataclass and has no default,
\* so a call that does not pass it raises TypeError; __post_init__ replaces
\* a falsy id by uuid4()
Decision(id, train, action, target_section, reason, confidence) ==
    IF ToString(id) = ToString(Missing)
    THEN [tag |-> "TypeError"]
    ELSE [tag |-> "Decision", id |-> IF Falsy(id) THEN uuid4 ELSE id,
          train |-> train, action |-> action,
          target_section |-> target_section, target_station |-> None,
          estimated_time |-> None, reason |-> reason, confidence |-> confidence]

\* OptimizationResult(...): __post_init__ turns falsy decisions (None) into []
OptimizationResult(decisions, total_delay_reduction, throughput_improvement, confidence_score, computation_time) ==
    [decisions |-> IF Falsy(decisions) THEN <<>> ELSE decisions,
     total_delay_reduction |-> total_delay_reduction,
     throughput_improvement |-> throughput_improvement,
     confidence_score |-> confidence_score, computation_time |-> computation_time]

\* ------------------------------------------------------------------------
\* The snapshots the model runs optimize on
\* ------------------------------------------------------------------------
\* The trains a snapshot is drawn from: the trains of tests/test_optimizer.py
\* (express 5 and passenger 10 on one section, express 0 and express 30),
\* and trains that are not eligible, sit on another section, or carry a
\* delay large enough to leave the range of the solver's total_delay
Fleet ==
    { Train(1, "express", 100, "S1", "running", 0, 1),
      Train(2, "passenger", 80, "S1", "delayed", 20, 1),
      Train(3, "freight", 60, "S1", "delayed", 40, 1),
      Train(4, "passenger", 80, "S1", "running", 5, 1),
      Train(5, "passenger", 80, "S1", "running", 10, 1),
      Train(6, "express", 100, "S1", "delayed", 30, 1),
      Train(7, "freight", 60, "S2", "running", 0, 1),
      Train(8, "special", 120, "S2", "delayed", 400, 1),
      Train(9, "express", 100, None, "running", 5, 1),
      Train(10, "passenger", 80, "S1", "on_time", 0, 1) }

FleetTrain(id) == CHOOSE t \in Fleet : t.id = id

\* snapshots of a whole SystemState: no train, two eligible trains and one
\* that needs no decision, two trains with a free order, an infeasible model
InputSnapshots ==
    { <<>>,
      <<FleetTrain(1), FleetTrain(2), FleetTrain(10)>>,
      <<FleetTrain(4), FleetTrain(5)>>,
      <<FleetTrain(8), FleetTrain(9)>> }

\* SystemState.trains: lists of distinct trains of the fleet
Snapshots ==
    { s \in UNION { [1..n -> Fleet] : n \in 0..MaxTrains } :
        \A i, j \in DOMAIN s : i # j => s[i].id # s[j].id }

\* ------------------------------------------------------------------------
\* The SystemState handed to optimize, but for its trains
\* ------------------------------------------------------------------------
VARIABLES
    sections,          \* system_state.sections
    stations,          \* system_state.stations
    active_decisions   \* system_state.active_decisions

\* ------------------------------------------------------------------------
\* core/optimizer.py: helpers of RailwayOptimizer
\* ------------------------------------------------------------------------
\* _get_trains_needing_decisions: status Running or Delayed and a section
\* (the mutant leaves the section test out)
GetTrainsNeedingDecisionsNoSectionTest(system_trains) ==
    LET Needs(train) == train.status \in {"running", "delayed"}
    IN SelectSeq(system_trains, Needs)

_get_trains_needing_decisions(system_trains) ==
    LET Needs(train) == /\ train.status \in {"running", "delayed"}
                        /\ train.current_section # None
    IN SelectSeq(system_trains, Needs)

\* _trains_compete_for_resource
\* (the mutant lets trains on different sections compete, as adjacent ones)
TrainsCompeteOnAnySections(train1, train2) ==
    IF train1.current_section = None \/ train2.current_section = None
    THEN FALSE
    ELSE TRUE

_trains_compete_for_resource(train1, train2) ==
    IF train1.current_section = None \/ train2.current_section = None
    THEN FALSE
    ELSE IF train1.current_section = train2.current_section
    THEN TRUE
    ELSE FALSE

\* the keys of precedence_vars: one Boolean variable per ordered pair i # j
\* (0-based indices as in the code)
PrecedenceVars(ts) ==
    { p \in (0..Len(ts) - 1) \X (0..Len(ts) - 1) : p[1] # p[2] }

\* _add_precedence_constraints: precedence_vars[(i,j)] + precedence_vars[(j,i)] == 1
\* (the mutant looks at neighbours in the list only)
AddPrecedenceConstraintsForNeighbours(ts) ==
    { [kind |-> "sum_is_1", i |-> p[1], j |-> p[2]] :
        p \in { q \in PrecedenceVars(ts) :
                  /\ q[2] = q[1] + 1
                  /\ _trains_compete_for_resource(ts[q[1] + 1], ts[q[2] + 1]) } }

_add_precedence_constraints(ts) ==
    { [kind |-> "sum_is_1", i |-> p[1], j |-> p[2]] :
        p \in { q \in PrecedenceVars(ts) :
                  _trains_compete_for_resource(ts[q[1] + 1], ts[q[2] + 1]) } }

\* _add_priority_constraints: precedence_vars[(i,j)] == 1
\* (the mutant forces the higher priority first whatever the delays)
\* (the second mutant forces the much delayed lower priority first and keeps
\* the higher priority forced first as well)
AddPriorityConstraintsNoOverride(ts) ==
    { [kind |-> "is_1", i |-> p[1], j |-> p[2]] :
        p \in { q \in PrecedenceVars(ts) :
                  ts[q[1] + 1].priority > ts[q[2] + 1].priority } }

AddPriorityConstraintsForcingException(ts) ==
    { [kind |-> "is_1", i |-> p[1], j |-> p[2]] :
        p \in { q \in PrecedenceVars(ts) :
                  \/ ts[q[1] + 1].priority > ts[q[2] + 1].priority
                  \/ /\ ts[q[2] + 1].priority > ts[q[1] + 1].priority
                     /\ ts[q[1] + 1].delay_minutes - ts[q[2] + 1].delay_minutes >= 30 } }

_add_priority_constraints(ts) ==
    { [kind |-> "is_1", i |-> p[1], j |-> p[2]] :
        p \in { q \in PrecedenceVars(ts) :
                  /\ ts[q[1] + 1].priority > ts[q[2] + 1].priority
                  /\ ts[q[2] + 1].delay_minutes - ts[q[1] + 1].delay_minutes < 30 } }

\* SystemState.get_section_by_id: <<the first section of that id>>, <<>> for
\* None
get_section_by_id(system_sections, section_id) ==
    LET found == { k \in DOMAIN system_sections : system_sections[k].id = section_id }
    IN IF found = {} THEN <<>>
       ELSE <<system_sections[CHOOSE k \in found : \A m \in found : k <= m]>>

\* _add_capacity_constraints groups the trains by section, looks each section
\* up in system_state.sections, compares the group with section.tracks and
\* adds nothing (pass)
_add_capacity_constraints(ts) ==
    LET section_groups ==
            [section_id \in { ts[i].current_section : i \in DOMAIN ts } \ {None} |->
                { i \in DOMAIN ts : ts[i].current_section = section_id }]
        OverCapacity(section_id) ==
            LET found == get_section_by_id(sections, section_id)
            IN found # <<>> /\ Cardinality(section_groups[section_id]) > found[1].tracks
    IN UNION { IF OverCapacity(section_id) THEN {} ELSE {} :
                 section_id \in DOMAIN section_groups }

\* sum(delay_terms), delay_terms[i] = (priority * 10) * delay_minutes
RECURSIVE SumDelayTerms(_)
SumDelayTerms(ts) ==
    IF ts = <<>> THEN 0
    ELSE (Head(ts).priority * 10) * Head(ts).delay_minutes + SumDelayTerms(Tail(ts))

\* bounds of model.NewIntVar(0, 10000, 'total_delay')
TotalDelayMin == 0

TotalDelayMax == 10000

\* the constraints _solve_precedence_problem puts into the CpModel
Constraints(ts) ==
    _add_precedence_constraints(ts) \cup _add_priority_constraints(ts)
        \cup _add_capacity_constraints(ts)

\* an assignment of the precedence variables satisfies one constraint
Holds(a, c) ==
    CASE c.kind = "sum_is_1" -> a[<<c.i, c.j>>] + a[<<c.j, c.i>>] = 1
      [] c.kind = "is_1" -> a[<<c.i, c.j>>] = 1

\* the value of the objective total_delay under an assignment: sum(delay_terms)
\* holds no precedence variable
Objective(ts, a) == SumDelayTerms(ts)

\* the assignments solver.Solve can end with: every constraint holds and
\* total_delay == sum(delay_terms) lies in the variable's domain
Solutions(ts) ==
    IF SumDelayTerms(ts) < TotalDelayMin \/ SumDelayTerms(ts) > TotalDelayMax
    THEN {}
    ELSE { a \in [PrecedenceVars(ts) -> {0, 1}] : \A c \in Constraints(ts) : Holds(a, c) }

\* ------------------------------------------------------------------------
\* Decisions
\* ------------------------------------------------------------------------
\* the except clause of optimize catches an exception of a stage; a list of
\* constructor results stands for the loop that builds them one by one: the
\* first TypeError ends the loop and leaves the function
Raises(ds) == \E k \in DOMAIN ds : ds[k].tag = "TypeError"

\* precedence_order of _extract_decisions_from_solution before the sort:
\* (position, i, train), position = number of j with precedence_vars[(j,i)] = 1
Position(a, n, i) == Cardinality({ j \in 0..n - 1 : j # i /\ a[<<j, i>>] = 1 })

PositionsUnsorted(ts, a) ==
    [k \in 1..Len(ts) |-> <<Position(a, Len(ts), k - 1), k - 1, ts[k]>>]

\* list.sort(key=...) and sorted(key=..., reverse=...) on keys that are pairs
\* of integers, keys[k] the key of s[k]. Both are stable: an element goes
\* behind the elements whose key comes first (the smaller key, the larger one
\* with reverse) and behind the earlier elements with an equal key
KeyLess(x, y) == x[1] < y[1] \/ (x[1] = y[1] /\ x[2] < y[2])

StableSort(s, keys, reverse) ==
    LET First(m, k) == IF reverse THEN KeyLess(keys[k], keys[m]) ELSE KeyLess(keys[m], keys[k])
        Slot(k) == Cardinality({ m \in DOMAIN s : First(m, k) })
                   + Cardinality({ m \in DOMAIN s : m < k /\ keys[m] = keys[k] })
                   + 1
    IN [slot \in DOMAIN s |-> s[CHOOSE k \in DOMAIN s : Slot(k) = slot]]

\* precedence_order.sort(key=lambda x: x[0])
PrecedenceOrder(ts, a) ==
    LET unsorted == PositionsUnsorted(ts, a)
    IN StableSort(unsorted, [k \in DOMAIN unsorted |-> <<unsorted[k][1], 0>>], FALSE)

\* the keyword arguments of one Decision(...) call of the optimizer
Kwargs(train, action, target_section, reason, confidence) ==
    [train |-> train, action |-> action, target_section |-> target_section,
     reason |-> reason, confidence |-> confidence]

\* Decision(train=..., action=..., ...) as the optimizer calls it: no call
\* passes id
Construct(calls) ==
    [k \in DOMAIN calls |->
       Decision(Missing, calls[k].train, calls[k].action, calls[k].target_section,
                calls[k].reason, calls[k].confidence)]

\* the calls a loop gets to make: it ends with the first call that raises
CallsMade(calls) ==
    LET ds == Construct(calls)
        bad == { k \in DOMAIN ds : ds[k].tag = "TypeError" }
    IN IF bad = {} THEN calls
       ELSE SubSeq(calls, 1, CHOOSE k \in bad : \A m \in bad : k <= m)

\* the Decision calls of the loop of _extract_decisions_from_solution
\* (the mutant lets a train that is not first cross)
ExtractionCallsWithCross(ts, a) ==
    LET order == PrecedenceOrder(ts, a)
    IN [k \in DOMAIN order |->
          IF order[k][1] = 0
          THEN Kwargs(order[k][3], "proceed", order[k][3].current_section,
                      "Highest priority in precedence order", Q(9, 10))
          ELSE Kwargs(order[k][3], "cross", None,
                      "Waiting for " \o ToString(order[k][1]) \o " higher priority trains",
                      Q(8, 10))]

ExtractionCalls(ts, a) ==
    LET order == PrecedenceOrder(ts, a)
    IN [k \in DOMAIN order |->
          IF order[k][1] = 0
          THEN Kwargs(order[k][3], "proceed", order[k][3].current_section,
                      "Highest priority in precedence order", Q(9, 10))
          ELSE Kwargs(order[k][3], "wait", None,
                      "Waiting for " \o ToString(order[k][1]) \o " higher priority trains",
                      Q(8, 10))]

_extract_decisions_from_solution(ts, a) == Construct(ExtractionCalls(ts, a))

\* sorted(trains, key=lambda t: (t.priority, -t.delay_minutes), reverse=True)
SortedTrains(ts) ==
    StableSort(ts, [k \in DOMAIN ts |-> <<ts[k].priority, 0 - ts[k].delay_minutes>>], TRUE)

\* the Decision calls of the loop of _generate_heuristic_decisions
HeuristicCalls(ts) ==
    LET sorted == SortedTrains(ts)
    IN [k \in DOMAIN sorted |->
          IF k - 1 = 0
          THEN Kwargs(sorted[k], "proceed", sorted[k].current_section,
                      "Highest priority by heuristic", Q(6, 10))
          ELSE Kwargs(sorted[k], "wait", None,
                      "Lower priority than " \o ToString(k - 1) \o " trains", Q(5, 10))]

_generate_heuristic_decisions(ts) == Construct(HeuristicCalls(ts))

\* the Decision calls of the loop of _generate_fallback_decisions
FallbackCalls(system_trains) ==
    LET InService(train) == train.status \in {"running", "delayed"}
        served == SelectSeq(system_trains, InService)
    IN [k \in DOMAIN served |->
          Kwargs(served[k], "proceed", served[k].current_section,
                 "Fallback: proceed with caution", Q(3, 10))]

FallbackDecisions(system_trains) == Construct(FallbackCalls(system_trains))

\* ------------------------------------------------------------------------
\* Metrics
\* ------------------------------------------------------------------------
\* (the mutant credits the whole delay of a proceeding train)
RECURSIVE DelayReductionUncapped(_)
DelayReductionUncapped(decisions) ==
    IF decisions = <<>> THEN 0
    ELSE LET d == Head(decisions)
         IN (IF d.action = "proceed" /\ is_delayed(d.train) THEN d.train.delay_minutes ELSE 0)
            + DelayReductionUncapped(Tail(decisions))

RECURSIVE _calculate_delay_reduction(_)
_calculate_delay_reduction(decisions) ==
    IF decisions = <<>> THEN 0
    ELSE LET d == Head(decisions)
         IN (IF d.action = "proceed" /\ is_delayed(d.train)
             THEN (IF d.train.delay_minutes < 10 THEN d.train.delay_minutes ELSE 10)
             ELSE 0)
            + _calculate_delay_reduction(Tail(decisions))

\* (the mutant does not divide by the number of decisions)
ThroughputUndivided(decisions) ==
    LET proceed_count == Cardinality({ k \in DOMAIN decisions : decisions[k].action = "proceed" })
    IN QMul(Q(proceed_count, 1), Q(20, 1))

_calculate_throughput_improvement(decisions) ==
    LET proceed_count == Cardinality({ k \in DOMAIN decisions : decisions[k].action = "proceed" })
        total_count == Len(decisions)
    IN IF total_count = 0 THEN Q(0, 1)
       ELSE QMul(Q(proceed_count, total_count), Q(20, 1))

RECURSIVE SumConfidence(_)
SumConfidence(decisions) ==
    IF decisions = <<>> THEN Q(0, 1)
    ELSE QAdd(Head(decisions).confidence, SumConfidence(Tail(decisions)))

\* (the first mutant does not cap the complexity factor at 1.0, the second
\* takes the number of decisions for the number of trains)
ConfidenceUncapped(decisions, system_trains) ==
    IF decisions = <<>> THEN Q(1, 1)
    ELSE LET avg_confidence == QMul(SumConfidence(decisions), Q(1, Len(decisions)))
             complexity_factor == Q(Len(system_trains), 20)
         IN QMul(avg_confidence, complexity_factor)

ConfidenceByDecisionCount(decisions, system_trains) ==
    IF decisions = <<>> THEN Q(1, 1)
    ELSE LET avg_confidence == QMul(SumConfidence(decisions), Q(1, Len(decisions)))
             complexity_factor == QMin(Q(1, 1), Q(Len(decisions), 20))
         IN QMul(avg_confidence, complexity_factor)

_calculate_confidence(decisions, system_trains) ==
    IF decisions = <<>> THEN Q(1, 1)
    ELSE LET avg_confidence == QMul(SumConfidence(decisions), Q(1, Len(decisions)))
             complexity_factor == QMin(Q(1, 1), Q(Len(system_trains), 20))
         IN QMul(avg_confidence, complexity_factor)

\* ------------------------------------------------------------------------
\* One call of RailwayOptimizer.optimize(system_state)
\* ------------------------------------------------------------------------
VARIABLES
    trains,            \* system_state.trains
    pc,                \* where the call is
    eligible,          \* trains_needing_decisions
    status,            \* what solver.Solve returned
    before,            \* solver.Value of the precedence variables
    precedence_order,  \* precedence_order of _extract_decisions_from_solution
    sorted_trains,     \* sorted_trains of _generate_heuristic_decisions
    failed_in,         \* the stage whose exception the except clause caught
    result,            \* <<the OptimizationResult returned>>, <<>> before
    raised,            \* the exception that left optimize, None if none
    decision_calls,    \* the Decision(...) calls the call of optimize has made
    given_decisions,   \* the decision list handed to the metrics
    train_args,        \* the arguments of the last Train(...) call
    new_train,         \* <<the Train constructed last>>, <<>> before
    section,           \* a Section
    accommodates,      \* <<what section.can_accommodate(new_train) returned>>, <<>> before
    available,         \* <<what section.is_available returned>>, <<>> before
    competes,          \* <<what _trains_compete_for_resource returned>>, <<>> before
    instance,          \* the RailwayOptimizer instance
    calls,             \* the calls of optimize that run interleaved on the instance
    returned_delay_reduction, \* <<what _calculate_delay_reduction returned>>, <<>> before
    returned_throughput,      \* <<what _calculate_throughput_improvement returned>>, <<>> before
    returned_confidence       \* <<what _calculate_confidence returned>>, <<>> before

\* RailwayOptimizer(time_limit_seconds): self.solver = None, written <<>>
RailwayOptimizer(time_limit_seconds) ==
    [time_limit_seconds |-> time_limit_seconds, solver |-> <<>>]

\* what the followed call of optimize does not hold: the objects of
\* core/models.py, the instance, the other calls
\* the rest of the SystemState
system_objects == <<sections, stations, active_decisions>>

\* what the metric functions returned when called on their own
metric_values == <<returned_delay_reduction, returned_throughput, returned_confidence>>

model_objects == <<system_objects, metric_values, given_decisions, train_args, new_train,
                   section, accommodates, available, competes, instance, calls>>

\* a SystemState without sections, stations and active decisions
EmptyNetwork ==
    /\ sections = <<>>
    /\ stations = <<>>
    /\ active_decisions = <<>>

\* no metric function has been called on its own
NoMetricCall ==
    /\ returned_delay_reduction = <<>>
    /\ returned_throughput = <<>>
    /\ returned_confidence = <<>>

vars == <<trains, pc, eligible, status, before, precedence_order, sorted_trains,
          failed_in, result, raised, decision_calls, model_objects>>

\* wall-clock seconds (datetime.utcnow() - start_time).total_seconds() may give:
\* any whole number of microseconds, with no bound (the call may wait in the
\* solver, the process may be suspended), negative when the wall clock was
\* set back between the two readings
Elapsed == { Q(k, 1000000) : k \in Int }

Init ==
    /\ trains \in Snapshots
    /\ pc = "Idle"
    /\ eligible = <<>>
    /\ status = None
    /\ before = <<>>
    /\ precedence_order = <<>>
    /\ sorted_trains = <<>>
    /\ failed_in = None
    /\ result = <<>>
    /\ raised = None
    /\ decision_calls = <<>>
    /\ given_decisions = <<>>
    /\ train_args = <<>>
    /\ new_train = <<>>
    /\ section = Section("S1", 80, 1, "available")
    /\ accommodates = <<>>
    /\ available = <<>>
    /\ competes = <<>>
    /\ EmptyNetwork
    /\ NoMetricCall
    /\ instance = RailwayOptimizer(30)
    /\ calls = <<>>

\* optimize is entered: start_time = datetime.utcnow()
Call ==
    /\ pc = "Idle"
    /\ pc' = "Filtering"
    /\ UNCHANGED <<trains, eligible, status, before, precedence_order, sorted_trains,
                   failed_in, result, raised>>
    /\ UNCHANGED <<decision_calls, model_objects>>

\* lines 54-63: the filter, and the early return when no train needs a decision
\* (the mutant stores the filtered list in the snapshot)
FilterIntoSnapshot ==
    /\ pc = "Filtering"
    /\ eligible' = _get_trains_needing_decisions(trains)
    /\ trains' = eligible'
    /\ IF eligible' = <<>>
       THEN /\ result' = <<OptimizationResult(<<>>, 0, Q(0, 1), Q(1, 1), Q(0, 1))>>
            /\ pc' = "Done"
       ELSE /\ result' = result
            /\ pc' = "Solving"
    /\ UNCHANGED <<status, before, precedence_order, sorted_trains, failed_in, raised>>
    /\ UNCHANGED <<decision_calls, model_objects>>

Filter ==
    /\ pc = "Filtering"
    /\ eligible' = _get_trains_needing_decisions(trains)
    /\ IF eligible' = <<>>
       THEN /\ result' = <<OptimizationResult(<<>>, 0, Q(0, 1), Q(1, 1), Q(0, 1))>>
            /\ pc' = "Done"
       ELSE /\ result' = result
            /\ pc' = "Solving"
    /\ UNCHANGED <<trains, status, before, precedence_order, sorted_trains, failed_in, raised>>
    /\ UNCHANGED <<decision_calls, model_objects>>

\* _solve_precedence_problem up to the test of status: Solve ends with an
\* assignment that satisfies the model, finds the model infeasible, or runs
\* out of time_limit_seconds before it has an assignment
SolveFound ==
    /\ pc = "Solving"
    /\ \E st \in {"OPTIMAL", "FEASIBLE"} : status' = st
    /\ before' \in Solutions(eligible)
    /\ pc' = "Extracting"
    /\ UNCHANGED <<trains, eligible, precedence_order, sorted_trains, failed_in, result, raised>>
    /\ UNCHANGED <<decision_calls, model_objects>>

SolveInfeasible ==
    /\ pc = "Solving"
    /\ Solutions(eligible) = {}
    /\ status' = "INFEASIBLE"
    /\ pc' = "Heuristic"
    /\ UNCHANGED <<trains, eligible, before, precedence_order, sorted_trains, failed_in,
                   result, raised>>
    /\ UNCHANGED <<decision_calls, model_objects>>

SolveTimeout ==
    /\ pc = "Solving"
    /\ status' = "UNKNOWN"
    /\ pc' = "Heuristic"
    /\ UNCHANGED <<trains, eligible, before, precedence_order, sorted_trains, failed_in,
                   result, raised>>
    /\ UNCHANGED <<decision_calls, model_objects>>

\* lines 72-84: the metrics and the return of the normal path
Score(ds, elapsed) ==
    OptimizationResult(ds, _calculate_delay_reduction(ds),
                       _calculate_throughput_improvement(ds),
                       _calculate_confidence(ds, trains), elapsed)

\* _extract_decisions_from_solution, then the metrics; an exception of the
\* Decision calls is caught by the except clause of optimize
Extract ==
    /\ pc = "Extracting"
    /\ precedence_order' = PrecedenceOrder(eligible, before)
    /\ decision_calls' = decision_calls \o CallsMade(ExtractionCalls(eligible, before))
    /\ LET built == _extract_decisions_from_solution(eligible, before)
       IN IF Raises(built)
          THEN /\ failed_in' = "Extracting"
               /\ pc' = "Failed"
               /\ result' = result
          ELSE /\ failed_in' = failed_in
               /\ pc' = "Done"
               /\ \E elapsed \in Elapsed : result' = <<Score(built, elapsed)>>
    /\ UNCHANGED <<trains, eligible, status, before, sorted_trains, raised, model_objects>>

\* _generate_heuristic_decisions, then the metrics
Heuristic ==
    /\ pc = "Heuristic"
    /\ sorted_trains' = SortedTrains(eligible)
    /\ decision_calls' = decision_calls \o CallsMade(HeuristicCalls(eligible))
    /\ LET built == _generate_heuristic_decisions(eligible)
       IN IF Raises(built)
          THEN /\ failed_in' = "Heuristic"
               /\ pc' = "Failed"
               /\ result' = result
          ELSE /\ failed_in' = failed_in
               /\ pc' = "Done"
               /\ \E elapsed \in Elapsed : result' = <<Score(built, elapsed)>>
    /\ UNCHANGED <<trains, eligible, status, before, precedence_order, raised, model_objects>>

\* the except clause: _generate_fallback_decisions; an exception raised in
\* there is not inside any try and leaves optimize
_generate_fallback_decisions ==
    /\ pc = "Failed"
    /\ decision_calls' = decision_calls \o CallsMade(FallbackCalls(trains))
    /\ LET built == FallbackDecisions(trains)
       IN IF Raises(built)
          THEN /\ raised' = "TypeError"
               /\ pc' = "Raised"
               /\ result' = result
          ELSE /\ raised' = raised
               /\ pc' = "FallbackDone"
               /\ result' = <<OptimizationResult(built, 0, Q(0, 1), Q(3, 10), Q(0, 1))>>
    /\ UNCHANGED <<trains, eligible, status, before, precedence_order, sorted_trains, failed_in,
                   model_objects>>

Next ==
    \/ Call
    \/ Filter
    \/ SolveFound
    \/ SolveInfeasible
    \/ SolveTimeout
    \/ Extract
    \/ Heuristic
    \/ _generate_fallback_decisions

Spec == Init /\ [][Next]_vars

\* the call is over: it returned or it raised
Finished == pc \in {"Done", "FallbackDone", "Raised"}

\* ------------------------------------------------------------------------
\* Vocabulary of the properties
\* ------------------------------------------------------------------------
\* a train is eligible: status Running or Delayed together with a section
Eligible(train) ==
    train.status \in {"running", "delayed"} /\ train.current_section # None

EligibleTrains == { trains[k] : k \in { m \in DOMAIN trains : Eligible(trains[m]) } }

InServiceTrains == { trains[k] : k \in { m \in DOMAIN trains : trains[m].status \in {"running", "delayed"} } }

\* the decisions the caller holds once the call is over (none if it raised)
ReturnedDecisions == IF result = <<>> THEN <<>> ELSE result[1].decisions

DecisionsOf(train) ==
    { k \in DOMAIN ReturnedDecisions : ReturnedDecisions[k].train.id = train.id }

\* the caller holds exactly one decision for the train, and it satisfies P
OneDecision(train, P(_)) ==
    /\ Cardinality(DecisionsOf(train)) = 1
    /\ \A k \in DOMAIN ReturnedDecisions :
         ReturnedDecisions[k].train.id = train.id => P(ReturnedDecisions[k])

\* the position extraction gave the train with index i of eligible (0-based)
PositionOf(i) ==
    LET ks == { k \in DOMAIN precedence_order : precedence_order[k][2] = i }
    IN precedence_order[CHOOSE k \in ks : TRUE][1]

\* ------------------------------------------------------------------------
\* C1: optimize is total: whatever stage raises, the call returns an
\* OptimizationResult and no exception reaches the caller, also when the
\* failure happens while the degraded fallback builds its Decision records.
\* ------------------------------------------------------------------------
C1_OptimizeNeverRaises ==
    /\ raised = None
    /\ Finished => Len(result) = 1

\* ------------------------------------------------------------------------
\* C2: when no train is eligible, optimize skips the solver and returns an
\* empty decision list with confidence_score 1.0, total_delay_reduction 0,
\* throughput_improvement 0.0 and computation_time 0.0.
\* ------------------------------------------------------------------------
C2_EmptyResultWhenNoEligibleTrain ==
    (EligibleTrains = {} /\ pc \notin {"Idle", "Filtering"}) =>
        /\ pc = "Done"
        /\ status = None /\ before = <<>>
        /\ raised = None
        /\ Len(result) = 1
        /\ result[1].decisions = <<>>
        /\ result[1].confidence_score = Q(1, 1)
        /\ result[1].total_delay_reduction = 0
        /\ result[1].throughput_improvement = Q(0, 1)
        /\ result[1].computation_time = Q(0, 1)

\* a call on a snapshot whose trains are all ineligible, one of them running
\* without a section, has returned
C2_Witness ==
    /\ pc = "Done"
    /\ Len(trains) >= 2
    /\ EligibleTrains = {}
    /\ \E k \in DOMAIN trains :
         trains[k].status = "running" /\ trains[k].current_section = None

\* ------------------------------------------------------------------------
\* C3: the decisions of a call cover the eligible trains exactly once each:
\* no duplicates, no omissions, no decision for an ineligible train.
\* ------------------------------------------------------------------------
C3_DecisionsCoverEligibleTrains ==
    Finished =>
        /\ \A t \in EligibleTrains : Cardinality(DecisionsOf(t)) = 1
        /\ \A k \in DOMAIN ReturnedDecisions : ReturnedDecisions[k].train \in EligibleTrains

\* ------------------------------------------------------------------------
\* C4: among the eligible trains on one section exactly one gets "proceed"
\* and every other one gets "wait"; two equal-priority trains with delays 5
\* and 10 give one "proceed" and one "wait" with reason
\* "Waiting for 1 higher priority trains".
\* ------------------------------------------------------------------------
C4_OneProceedPerSection ==
    Finished =>
        \A sec \in { t.current_section : t \in EligibleTrains } :
            LET here == { t \in EligibleTrains : t.current_section = sec }
                IsProceed(d) == d.action = "proceed"
                IsWait(d) == d.action = "wait"
                IsWaitFor1(d) == d.action = "wait" /\ d.reason = "Waiting for 1 higher priority trains"
            IN /\ \E t \in here :
                    /\ OneDecision(t, IsProceed)
                    /\ \A u \in here \ {t} : OneDecision(u, IsWait)
               /\ (Cardinality(here) = 2 /\ Cardinality(EligibleTrains) = 2
                   /\ \A t, u \in here : t.priority = u.priority)
                  => \E u \in here : OneDecision(u, IsWaitFor1)

\* ------------------------------------------------------------------------
\* C5: for eligible trains i, j on one section with priority(i) > priority(j)
\* and delay(j) - delay(i) < 30, the accepted assignment has before(i,j)
\* true, i is ranked ahead of j, and the confidence of i's decision is at
\* least that of j's, whatever other eligible trains are present.
\* ------------------------------------------------------------------------
C5_HigherPriorityOrderedFirst ==
    \A i, j \in 0..Len(eligible) - 1 :
        (/\ i # j
         /\ eligible[i + 1].current_section = eligible[j + 1].current_section
         /\ eligible[i + 1].priority > eligible[j + 1].priority
         /\ eligible[j + 1].delay_minutes - eligible[i + 1].delay_minutes < 30
         /\ status \in {"OPTIMAL", "FEASIBLE"}) =>
            /\ before[<<i, j>>] = 1
            /\ precedence_order # <<>> => PositionOf(i) < PositionOf(j)
            /\ Finished =>
                 \E di \in DecisionsOf(eligible[i + 1]), dj \in DecisionsOf(eligible[j + 1]) :
                     QLe(ReturnedDecisions[dj].confidence, ReturnedDecisions[di].confidence)

\* ------------------------------------------------------------------------
\* C6: for eligible trains A, B on one section with priority(A) > priority(B)
\* and delay(B) - delay(A) >= 30 the model does not force A before B: the
\* solve can end with A before B and it can end with B before A.
\* ------------------------------------------------------------------------
OverridePair(i, j) ==
    /\ i # j
    /\ eligible[i + 1].current_section = eligible[j + 1].current_section
    /\ eligible[i + 1].priority > eligible[j + 1].priority
    /\ eligible[j + 1].delay_minutes - eligible[i + 1].delay_minutes >= 30

C6_EitherOrderCanBeSolved ==
    pc = "Solving" =>
        \A i, j \in 0..Len(eligible) - 1 :
            OverridePair(i, j) =>
                /\ ENABLED (SolveFound /\ before'[<<i, j>>] = 1 /\ before'[<<j, i>>] = 0)
                /\ ENABLED (SolveFound /\ before'[<<j, i>>] = 1 /\ before'[<<i, j>>] = 0)

\* C6 as amended: the same, for a model whose total_delay is within its range
C6_EitherOrderCanBeSolvedWhenInRange ==
    pc = "Solving" =>
        \A i, j \in 0..Len(eligible) - 1 :
            (/\ OverridePair(i, j)
             /\ SumDelayTerms(eligible) >= 0
             /\ SumDelayTerms(eligible) <= 10000) =>
                /\ ENABLED (SolveFound /\ before'[<<i, j>>] = 1 /\ before'[<<j, i>>] = 0)
                /\ ENABLED (SolveFound /\ before'[<<j, i>>] = 1 /\ before'[<<i, j>>] = 0)

\* the solve ended with the lower-priority, much more delayed train first,
\* with a third train in the model
C6_Witness ==
    /\ pc = "Extracting"
    /\ Len(eligible) = 3
    /\ \E i, j \in 0..Len(eligible) - 1 : OverridePair(i, j) /\ before[<<j, i>>] = 1

\* ------------------------------------------------------------------------
\* C7: of two equal-priority eligible trains on one section the more delayed
\* one is prioritized: the heuristic does not put it behind the less delayed
\* one, and the confidence of its decision is at least that of the other.
\* ------------------------------------------------------------------------
IndexIn(s, train) == CHOOSE k \in DOMAIN s : s[k].id = train.id

C7_MoreDelayedTrainPrioritized ==
    \A t, u \in EligibleTrains :
        (/\ Cardinality(EligibleTrains) = 2
         /\ t.current_section = u.current_section
         /\ t.priority = u.priority
         /\ t.delay_minutes > u.delay_minutes) =>
            /\ sorted_trains # <<>> => IndexIn(sorted_trains, t) < IndexIn(sorted_trains, u)
            /\ Finished =>
                 \E dt \in DecisionsOf(t), du \in DecisionsOf(u) :
                     QLe(ReturnedDecisions[du].confidence, ReturnedDecisions[dt].confidence)

\* ------------------------------------------------------------------------
\* C8: when a stage raised, the result holds one decision "proceed",
\* "Fallback: proceed with caution", confidence 0.3, for every train that is
\* Running or Delayed (with or without a section) and for no other train,
\* with total_delay_reduction 0, throughput_improvement 0.0,
\* confidence_score 0.3 and computation_time 0.0.
\* ------------------------------------------------------------------------
C8_FallbackResultAfterException ==
    (failed_in # None /\ Finished) =>
        LET IsFallback(d) ==
                /\ d.action = "proceed"
                /\ d.reason = "Fallback: proceed with caution"
                /\ d.confidence = Q(3, 10)
        IN /\ Len(result) = 1
           /\ \A t \in InServiceTrains : OneDecision(t, IsFallback)
           /\ \A k \in DOMAIN ReturnedDecisions : ReturnedDecisions[k].train \in InServiceTrains
           /\ result[1].total_delay_reduction = 0
           /\ result[1].throughput_improvement = Q(0, 1)
           /\ result[1].confidence_score = Q(3, 10)
           /\ result[1].computation_time = Q(0, 1)

\* ------------------------------------------------------------------------
\* C9: when the solver ends without an assignment (infeasible, or timeout),
\* no error is surfaced: optimize returns the heuristic decisions on the
\* normal path, not the degraded confidence-0.3 fallback.
\* ------------------------------------------------------------------------
C9_HeuristicResultWhenSolverFails ==
    (status \in {"INFEASIBLE", "UNKNOWN"} /\ Finished) =>
        /\ raised = None
        /\ failed_in = None
        /\ pc = "Done"
        /\ Len(result) = 1
        /\ Len(ReturnedDecisions) = Len(eligible)
        /\ \A k \in DOMAIN ReturnedDecisions :
             ReturnedDecisions[k].confidence \in {Q(6, 10), Q(5, 10)}

\* ------------------------------------------------------------------------
\* C10: the heuristic order is the eligible trains by priority descending
\* and, among equal priorities, by delay_minutes descending.
\* ------------------------------------------------------------------------
C10_HeuristicOrderPriorityThenDelayDescending ==
    sorted_trains # <<>> =>
        /\ Len(sorted_trains) = Len(eligible)
        /\ \A t \in EligibleTrains : \E k \in DOMAIN sorted_trains : sorted_trains[k] = t
        /\ \A k, m \in DOMAIN sorted_trains :
             k < m =>
                \/ sorted_trains[k].priority > sorted_trains[m].priority
                \/ /\ sorted_trains[k].priority = sorted_trains[m].priority
                   /\ sorted_trains[k].delay_minutes >= sorted_trains[m].delay_minutes

\* ------------------------------------------------------------------------
\* C11: a train at rank 0 gets a decision "proceed" with target_section its
\* current section, reason "Highest priority in precedence order" and
\* confidence 0.9 on the solved path, reason "Highest priority by heuristic"
\* and confidence 0.6 on the heuristic path; a single eligible train yields
\* exactly one such decision.
\* ------------------------------------------------------------------------
C11_RankZeroProceeds ==
    Finished =>
        LET FirstSolved(d) ==
                /\ d.action = "proceed"
                /\ d.target_section = d.train.current_section
                /\ d.reason = "Highest priority in precedence order"
                /\ d.confidence = Q(9, 10)
            FirstHeuristic(d) ==
                /\ d.action = "proceed"
                /\ d.target_section = d.train.current_section
                /\ d.reason = "Highest priority by heuristic"
                /\ d.confidence = Q(6, 10)
        IN /\ \A k \in DOMAIN precedence_order :
                precedence_order[k][1] = 0 => OneDecision(precedence_order[k][3], FirstSolved)
           /\ sorted_trains # <<>> => OneDecision(sorted_trains[1], FirstHeuristic)
           /\ Cardinality(EligibleTrains) = 1 =>
                /\ Len(ReturnedDecisions) = 1
                /\ \A t \in EligibleTrains :
                     \/ OneDecision(t, FirstSolved)
                     \/ OneDecision(t, FirstHeuristic)

\* ------------------------------------------------------------------------
\* C12: a train at rank r > 0 gets a decision "wait" without target section,
\* with reason "Waiting for r higher priority trains" on both paths, and
\* confidence 0.8 on the solved path, 0.5 on the heuristic path.
\* ------------------------------------------------------------------------
C12_LaterRanksWait ==
    Finished =>
        /\ \A k \in DOMAIN precedence_order :
             precedence_order[k][1] > 0 =>
                LET WaitSolved(d) ==
                        /\ d.action = "wait"
                        /\ d.target_section = None
                        /\ d.reason = "Waiting for " \o ToString(precedence_order[k][1])
                                         \o " higher priority trains"
                        /\ d.confidence = Q(8, 10)
                IN OneDecision(precedence_order[k][3], WaitSolved)
        /\ \A k \in DOMAIN sorted_trains :
             k > 1 =>
                LET WaitHeuristic(d) ==
                        /\ d.action = "wait"
                        /\ d.target_section = None
                        /\ d.reason = "Waiting for " \o ToString(k - 1) \o " higher priority trains"
                        /\ d.confidence = Q(5, 10)
                IN OneDecision(sorted_trains[k], WaitHeuristic)

\* ------------------------------------------------------------------------
\* Train(...) called with any arguments
\* ------------------------------------------------------------------------
\* the values of the fields a caller passes
\* ids a caller passes to Train(...): a falsy one and a proper one
TrainIdArgs == {0, 1}

TrainTypeArgs == TrainType \cup {"unknown"}

MaxSpeedArgs == {80, 100}

SectionArgs == {None, "S1"}

DelayArgs == {0, 5}

\* the specifications of core/models.py leave the optimizer alone
OptimizerIdle ==
    /\ trains = <<>>
    /\ eligible = <<>>
    /\ status = None
    /\ before = <<>>
    /\ precedence_order = <<>>
    /\ sorted_trains = <<>>
    /\ failed_in = None
    /\ result = <<>>
    /\ raised = None
    /\ decision_calls = <<>>

optimizer_vars == <<trains, eligible, status, before, precedence_order, sorted_trains,
                    failed_in, result, raised, decision_calls>>

InitTrain ==
    /\ OptimizerIdle
    /\ pc = "Models"
    /\ given_decisions = <<>>
    /\ train_args = <<>>
    /\ new_train = <<>>
    /\ section = Section("S1", 80, 1, "available")
    /\ accommodates = <<>>
    /\ available = <<>>
    /\ competes = <<>>
    /\ EmptyNetwork
    /\ NoMetricCall
    /\ instance = RailwayOptimizer(30)
    /\ calls = <<>>

\* train = Train(id=..., train_type=..., ..., priority=...)
NewTrain ==
    /\ pc = "Models"
    /\ \E tt \in TrainTypeArgs, ms \in MaxSpeedArgs, cs \in SectionArgs, st \in TrainStatus,
          dm \in DelayArgs, pr \in 0..MaxPriorityArg :
          /\ \E id \in TrainIdArgs :
                /\ train_args' = [id |-> id, train_type |-> tt, max_speed |-> ms,
                                  current_section |-> cs, status |-> st,
                                  delay_minutes |-> dm, priority |-> pr]
                /\ new_train' = <<Train(id, tt, ms, cs, st, dm, pr)>>
    /\ UNCHANGED <<pc, optimizer_vars, system_objects, metric_values, given_decisions, section, accommodates,
                   available, competes, instance, calls>>

TrainSpec == InitTrain /\ [][NewTrain]_vars

\* ------------------------------------------------------------------------
\* C13: a Train of type Special, Express, Passenger or Freight has priority
\* 4, 3, 2 or 1, whatever priority the caller passes and whatever the other
\* fields are; any other type gives 1.
\* ------------------------------------------------------------------------
C13_PriorityDerivedFromType ==
    new_train # <<>> =>
        /\ train_args.train_type = "special" => new_train[1].priority = 4
        /\ train_args.train_type = "express" => new_train[1].priority = 3
        /\ train_args.train_type = "passenger" => new_train[1].priority = 2
        /\ train_args.train_type = "freight" => new_train[1].priority = 1
        /\ train_args.train_type \notin {"special", "express", "passenger", "freight"}
             => new_train[1].priority = 1

\* a freight train was constructed by a caller that passed priority 4
C13_Witness ==
    /\ new_train # <<>>
    /\ train_args.train_type = "freight"
    /\ train_args.priority = 4
    /\ new_train[1].train_type = "freight"
    /\ new_train[1].priority = 1

\* ------------------------------------------------------------------------
\* The metric functions of lines 72-74 called on any decision list, and
\* calls of optimize
\* ------------------------------------------------------------------------
\* the trains the decisions are about: delays 30, 5, 0 and 10
ScoredTrainIds == <<6, 4, 1, 5>>

\* a snapshot of n trains: the trains above, then trains out of service
SnapshotOf(n) ==
    [k \in 1..n |->
       IF k <= Len(ScoredTrainIds)
       THEN CHOOSE t \in Fleet : t.id = ScoredTrainIds[k]
       ELSE Train(100 + k, "freight", 60, None, "stopped", 0, 1)]

\* action and confidence of the decisions the normal path builds
DecisionKinds ==
    { Kwargs(None, "proceed", None, "Highest priority in precedence order", Q(9, 10)),
      Kwargs(None, "wait", None, "Waiting for 1 higher priority trains", Q(8, 10)),
      Kwargs(None, "proceed", None, "Highest priority by heuristic", Q(6, 10)),
      Kwargs(None, "wait", None, "Lower priority than 1 trains", Q(5, 10)) }

\* the ids the caller gives its decisions
DecisionIds == <<"D1", "D2", "D3", "D4">>

\* decision lists about distinct trains of the snapshot, in any order, built
\* by a caller that passes id
DecisionLists(snapshot) ==
    LET scored == { snapshot[k] : k \in { m \in DOMAIN snapshot : m <= Len(ScoredTrainIds) } }
        lists == UNION { [1..n -> scored \X DecisionKinds] : n \in 0..MaxDecisions }
    IN { [k \in DOMAIN l |->
            Decision(DecisionIds[k], l[k][1], l[k][2].action,
                     IF l[k][2].action = "proceed" THEN l[k][1].current_section ELSE None,
                     l[k][2].reason, l[k][2].confidence)] :
         l \in { x \in lists : \A i, j \in DOMAIN x : i # j => x[i][1] # x[j][1] } }

\* a caller holds a snapshot and a decision list for the metric functions
\* (pc "Scoring"), or optimize is about to be called on a snapshot (pc "Idle")
InitMetrics ==
    /\ \/ /\ pc = "Scoring"
          /\ \E n \in 0..MaxSnapshotTrains : trains = SnapshotOf(n)
          /\ given_decisions \in DecisionLists(trains)
       \/ /\ pc = "Idle"
          /\ trains \in InputSnapshots
          /\ given_decisions = <<>>
    /\ eligible = <<>>
    /\ status = None
    /\ before = <<>>
    /\ precedence_order = <<>>
    /\ sorted_trains = <<>>
    /\ failed_in = None
    /\ result = <<>>
    /\ raised = None
    /\ decision_calls = <<>>
    /\ train_args = <<>>
    /\ new_train = <<>>
    /\ section = Section("S1", 80, 1, "available")
    /\ accommodates = <<>>
    /\ available = <<>>
    /\ competes = <<>>
    /\ EmptyNetwork
    /\ NoMetricCall
    /\ instance = RailwayOptimizer(30)
    /\ calls = <<>>

not_metric_values == <<pc, optimizer_vars, system_objects, given_decisions, train_args,
                       new_train, section, accommodates, available, competes, instance,
                       calls>>

\* self._calculate_delay_reduction(decisions, system_state): the call and
\* what it returned
CalculateDelayReduction ==
    /\ pc = "Scoring"
    /\ returned_delay_reduction = <<>>
    /\ returned_delay_reduction' = <<_calculate_delay_reduction(given_decisions)>>
    /\ UNCHANGED <<not_metric_values, returned_throughput, returned_confidence>>

\* self._calculate_throughput_improvement(decisions)
CalculateThroughputImprovement ==
    /\ pc = "Scoring"
    /\ returned_throughput = <<>>
    /\ returned_throughput' = <<_calculate_throughput_improvement(given_decisions)>>
    /\ UNCHANGED <<not_metric_values, returned_delay_reduction, returned_confidence>>

\* self._calculate_confidence(decisions, system_state)
CalculateConfidence ==
    /\ pc = "Scoring"
    /\ returned_confidence = <<>>
    /\ returned_confidence' = <<_calculate_confidence(given_decisions, trains)>>
    /\ UNCHANGED <<not_metric_values, returned_delay_reduction, returned_throughput>>

NextMetrics ==
    \/ Next
    \/ CalculateDelayReduction
    \/ CalculateThroughputImprovement
    \/ CalculateConfidence

MetricsSpec == InitMetrics /\ [][NextMetrics]_vars

\* sum of f over the finite set S
RECURSIVE SumOf(_, _)
SumOf(f, S) ==
    IF S = {} THEN 0
    ELSE LET x == CHOOSE y \in S : TRUE IN f[x] + SumOf(f, S \ {x})

\* the decisions of a list that let a delayed train proceed
ProceedingDelayedIn(ds) ==
    { k \in DOMAIN ds : ds[k].action = "proceed" /\ ds[k].train.delay_minutes > 0 }

ProceedingDelayed == ProceedingDelayedIn(given_decisions)

\* v is the capped sum of the delays of the delayed trains that proceed in ds
IsCappedSum(ds, v) ==
    LET credit == [k \in DOMAIN ds |->
                     IF ds[k].train.delay_minutes <= 10
                     THEN ds[k].train.delay_minutes ELSE 10]
    IN /\ v = SumOf(credit, ProceedingDelayedIn(ds))
       /\ v >= 0
       /\ v <= 10 * Cardinality(ProceedingDelayedIn(ds))

\* t is the share of "proceed" decisions of ds times 20.0
IsProceedShare(ds, t) ==
    LET proceeds == Cardinality({ k \in DOMAIN ds : ds[k].action = "proceed" })
    IN /\ ds = <<>> => t.n = 0
       /\ ds # <<>> => t.n * Len(ds) = proceeds * 20 * t.d
       /\ t.d > 0 /\ 0 <= t.n /\ t.n <= 20 * t.d

\* c is the mean of the confidences of ds times min(1.0, N / 20.0)
IsDampedMean(ds, N, c) ==
    LET tenths == [k \in DOMAIN ds |-> (ds[k].confidence.n * 10) \div ds[k].confidence.d]
        total == SumOf(tenths, DOMAIN ds)
        len == Len(ds)
    IN \* mean = total / (10 * len)
       /\ N >= 20 => c.n * 10 * len = total * c.d
       /\ N < 20 => c.n * 10 * len * 20 = total * N * c.d
       /\ N < 20 => c.n * 10 * len < total * c.d

\* ------------------------------------------------------------------------
\* C14: total_delay_reduction is the sum, over the decisions "proceed" whose
\* train has delay_minutes > 0, of min(delay_minutes, 10); it lies between 0
\* and 10 times the number of those decisions: in what
\* _calculate_delay_reduction returns for any decision list, and in every
\* result optimize returns.
\* ------------------------------------------------------------------------
C14_DelayReductionIsCappedSum ==
    /\ returned_delay_reduction # <<>> =>
          IsCappedSum(given_decisions, returned_delay_reduction[1])
    /\ result # <<>> =>
          IsCappedSum(result[1].decisions, result[1].total_delay_reduction)

\* a train delayed by 30 and a train delayed by 5 proceed: 10 + 5
C14_Witness ==
    /\ returned_delay_reduction # <<>>
    /\ Cardinality(ProceedingDelayed) = 2
    /\ \E k \in ProceedingDelayed : given_decisions[k].train.delay_minutes = 30
    /\ returned_delay_reduction[1] = 15

\* ------------------------------------------------------------------------
\* C15: throughput_improvement is (number of "proceed" decisions / number of
\* decisions) * 20.0, 0.0 for an empty list; it lies between 0.0 and 20.0:
\* in what _calculate_throughput_improvement returns for any decision list,
\* and in every result optimize returns.
\* ------------------------------------------------------------------------
C15_ThroughputIsProceedShare ==
    /\ returned_throughput # <<>> =>
          IsProceedShare(given_decisions, returned_throughput[1])
    /\ result # <<>> =>
          IsProceedShare(result[1].decisions, result[1].throughput_improvement)

\* one of two decisions is "proceed": 10.0
C15_Witness ==
    /\ returned_throughput # <<>>
    /\ Len(given_decisions) = 2
    /\ \E k \in DOMAIN given_decisions : given_decisions[k].action = "wait"
    /\ returned_throughput[1] = Q(10, 1)

\* ------------------------------------------------------------------------
\* C16: 0.0 <= confidence_score <= 1.0 in every result optimize returns and
\* in what _calculate_confidence returns for any decision list and snapshot.
\* ------------------------------------------------------------------------
C16_ConfidenceScoreInUnitInterval ==
    LET InUnitInterval(c) == c.d > 0 /\ 0 <= c.n /\ c.n <= c.d
    IN /\ returned_confidence # <<>> => InUnitInterval(returned_confidence[1])
       /\ result # <<>> => InUnitInterval(result[1].confidence_score)

\* _calculate_confidence has returned for a snapshot of more than 22 trains
\* and a decision of confidence 0.9
C16_Witness ==
    /\ returned_confidence # <<>>
    /\ Len(trains) > 22
    /\ Len(given_decisions) = 1
    /\ given_decisions[1].confidence = Q(9, 10)
    /\ returned_confidence[1] = Q(9, 10)

\* ------------------------------------------------------------------------
\* C17: with at least one decision, confidence_score is the mean of the
\* decision confidences times min(1.0, N / 20.0), N the number of all trains
\* of the snapshot: the raw mean for N >= 20, strictly less for N < 20; in
\* what _calculate_confidence returns, and in every result of the normal
\* path.
\* ------------------------------------------------------------------------
C17_ConfidenceIsDampedMean ==
    /\ (returned_confidence # <<>> /\ given_decisions # <<>>) =>
          IsDampedMean(given_decisions, Len(trains), returned_confidence[1])
    /\ (pc = "Done" /\ ReturnedDecisions # <<>>) =>
          IsDampedMean(ReturnedDecisions, Len(trains), result[1].confidence_score)

\* 19 trains, two decisions of confidence 0.9 and 0.8: 0.85 * 19 / 20
C17_Witness ==
    /\ returned_confidence # <<>>
    /\ Len(trains) = 19
    /\ Len(given_decisions) = 2
    /\ returned_confidence[1] = Q(323, 400)

\* ------------------------------------------------------------------------
\* Calls of optimize on a whole SystemState: trains, sections, stations and
\* active decisions
\* ------------------------------------------------------------------------
\* system_state.sections: none, two free sections, one section of one track
\* that holds two trains
InputSections ==
    { <<>>,
      <<Section("S1", 80, 1, "available"), Section("S2", 120, 2, "maintenance")>>,
      <<[Section("S1", 80, 1, "occupied") EXCEPT !.current_trains = <<1, 2>>]>> }

\* system_state.stations
InputStations == { <<>>, <<Station("ST1", "Central", "CEN", 4, TRUE)>> }

\* system_state.active_decisions: decisions of an earlier call, built by a
\* caller that passes id
InputActiveDecisions ==
    { <<>>,
      <<Decision("D1", FleetTrain(1), "proceed", "S1",
                 "Highest priority in precedence order", Q(9, 10))>> }

InitInput ==
    /\ \/ /\ trains \in Snapshots
          /\ EmptyNetwork
       \/ /\ trains \in InputSnapshots
          /\ sections \in InputSections
          /\ stations \in InputStations
          /\ active_decisions \in InputActiveDecisions
    /\ pc = "Idle"
    /\ eligible = <<>>
    /\ status = None
    /\ before = <<>>
    /\ precedence_order = <<>>
    /\ sorted_trains = <<>>
    /\ failed_in = None
    /\ result = <<>>
    /\ raised = None
    /\ decision_calls = <<>>
    /\ given_decisions = <<>>
    /\ train_args = <<>>
    /\ new_train = <<>>
    /\ section = Section("S1", 80, 1, "available")
    /\ accommodates = <<>>
    /\ available = <<>>
    /\ competes = <<>>
    /\ NoMetricCall
    /\ instance = RailwayOptimizer(30)
    /\ calls = <<>>

InputSpec == InitInput /\ [][Next]_vars

\* ------------------------------------------------------------------------
\* C18: optimize never mutates its input: no step of a call changes the
\* trains of the snapshot or their order, the sections (their status and
\* current_trains included), the stations or active_decisions.
\* ------------------------------------------------------------------------
C18_InputNeverMutated ==
    [][/\ trains' = trains
       /\ sections' = sections
       /\ stations' = stations
       /\ active_decisions' = active_decisions]_vars

\* a call that went through the solver, the extraction and the degraded
\* fallback has ended, with a train in the snapshot that needs no decision,
\* an occupied section the capacity step looked up, a station and an active
\* decision
C18_Witness ==
    /\ pc = "Raised"
    /\ failed_in # None
    /\ Len(decision_calls) > 1
    /\ Len(eligible) > 1
    /\ Len(eligible) < Len(trains)
    /\ sections # <<>>
    /\ sections[1].current_trains # <<>>
    /\ stations # <<>>
    /\ active_decisions # <<>>

\* ------------------------------------------------------------------------
\* C19: every Decision call of optimize passes action "proceed" or "wait",
\* and so does every decision of a result; "reroute" and "cross" appear on
\* no path.
\* ------------------------------------------------------------------------
C19_OnlyProceedOrWait ==
    /\ \A k \in DOMAIN decision_calls : decision_calls[k].action \in {"proceed", "wait"}
    /\ \A k \in DOMAIN ReturnedDecisions : ReturnedDecisions[k].action \in {"proceed", "wait"}

\* the extraction has asked for a "wait" decision and the degraded fallback
\* for a "proceed" decision
C19_Witness ==
    /\ Finished
    /\ \E k \in DOMAIN decision_calls : decision_calls[k].action = "wait"
    /\ \E k \in DOMAIN decision_calls : decision_calls[k].action = "proceed"

\* ------------------------------------------------------------------------
\* Section: trains enter current_trains, and can_accommodate is asked about
\* a new train
\* ------------------------------------------------------------------------
SectionSpeedArgs == {80, 120}

InitSection ==
    /\ OptimizerIdle
    /\ pc = "Sections"
    /\ decision_calls = <<>>
    /\ given_decisions = <<>>
    /\ train_args = <<>>
    /\ \E tt \in {"express", "passenger"}, ms \in MaxSpeedArgs :
          new_train = <<Train(1, tt, ms, None, "running", 0, 1)>>
    /\ \E ms \in SectionSpeedArgs, tr \in 1..MaxTracks, st \in SectionStatus :
          section = Section("S1", ms, tr, st)
    /\ accommodates = <<>>
    /\ available = <<>>
    /\ competes = <<>>
    /\ EmptyNetwork
    /\ NoMetricCall
    /\ instance = RailwayOptimizer(30)
    /\ calls = <<>>

\* section.current_trains.append(...)
AppendTrain ==
    /\ pc = "Sections"
    /\ Len(section.current_trains) < MaxOccupants
    /\ section' = [section EXCEPT !.current_trains = Append(@, 200 + Len(@))]
    /\ UNCHANGED <<pc, optimizer_vars, system_objects, metric_values, decision_calls, given_decisions, train_args,
                   new_train, accommodates, available, competes, instance, calls>>

\* section.can_accommodate(train): the call and what it returned
CanAccommodate ==
    /\ pc = "Sections"
    /\ accommodates' = <<[section |-> section, train |-> new_train[1],
                          returned |-> can_accommodate(section, new_train[1])]>>
    /\ UNCHANGED <<pc, optimizer_vars, system_objects, metric_values, decision_calls, given_decisions, train_args,
                   new_train, section, available, competes, instance, calls>>

\* section.is_available: the section asked and what the property returned
IsAvailable ==
    /\ pc = "Sections"
    /\ available' = <<[section |-> section, returned |-> is_available(section)]>>
    /\ UNCHANGED <<pc, optimizer_vars, system_objects, metric_values, decision_calls, given_decisions, train_args,
                   new_train, section, accommodates, competes, instance, calls>>

NextSection ==
    \/ AppendTrain
    \/ CanAccommodate
    \/ IsAvailable

SectionSpec == InitSection /\ [][NextSection]_vars

\* ------------------------------------------------------------------------
\* C20: can_accommodate answers True exactly when the section's status is
\* Available, it holds fewer trains than it has tracks, and the train's
\* max_speed is at most the section's max_speed_kmh.
\* ------------------------------------------------------------------------
C20_AccommodatesIffAvailableFreeAndSlowEnough ==
    \A k \in DOMAIN accommodates :
        LET call == accommodates[k]
        IN call.returned <=>
              /\ call.section.status = "available"
              /\ Len(call.section.current_trains) < call.section.tracks
              /\ call.train.max_speed <= call.section.max_speed_kmh

\* a section with two tracks, one train in it and max_speed_kmh 80 takes a
\* train of max_speed 80
C20_Witness ==
    /\ accommodates # <<>>
    /\ accommodates[1].returned
    /\ Len(accommodates[1].section.current_trains) = 1
    /\ accommodates[1].train.max_speed = accommodates[1].section.max_speed_kmh

\* ------------------------------------------------------------------------
\* C21: an Available section stays available while its trains do not exceed
\* its track count, and is not available once they do: with tracks = 1 it is
\* available after one train was added and not after a second.
\* ------------------------------------------------------------------------
C21_AvailableUntilTracksExceeded ==
    \A k \in DOMAIN available :
        LET call == available[k]
        IN call.section.status = "available" =>
              (call.returned <=> Len(call.section.current_trains) <= call.section.tracks)

\* ------------------------------------------------------------------------
\* C22: every Decision carries a flag applied, false when the Decision is
\* created, and no step sets it to true.
\* ------------------------------------------------------------------------
C22_DecisionsCarryAppliedFalse ==
    /\ \A k \in DOMAIN given_decisions :
          /\ "applied" \in DOMAIN given_decisions[k]
          /\ given_decisions[k].applied = FALSE
    /\ \A k \in DOMAIN ReturnedDecisions :
          /\ "applied" \in DOMAIN ReturnedDecisions[k]
          /\ ReturnedDecisions[k].applied = FALSE

\* ------------------------------------------------------------------------
\* A call of optimize is synchronous code: each of its steps is taken once
\* it can be, and solver.Solve comes back within max_time_in_seconds
\* ------------------------------------------------------------------------
FairSpec == Spec /\ WF_vars(Next)

\* ------------------------------------------------------------------------
\* C23: every call of optimize terminates in a state that returns a result,
\* whatever the snapshot and the time budget.
\* ------------------------------------------------------------------------
C23_CallEndsWithResult == <>(pc \in {"Done", "FallbackDone"} /\ result # <<>>)

\* how far a call has come
StageOf(p) ==
    CASE p = "Idle" -> 0
      [] p = "Filtering" -> 1
      [] p = "Solving" -> 2
      [] p \in {"Extracting", "Heuristic"} -> 3
      [] p = "Failed" -> 4
      [] OTHER -> 5

\* ------------------------------------------------------------------------
\* C24: a call only moves forward through Idle, Filtering, Solving,
\* Extracting, Scoring, Done; Solving is not entered with no eligible train;
\* a result with decisions is scored only after they were extracted; every
\* run ends in Done or FallbackDone, and in FallbackDone only after a
\* failure.
\* ------------------------------------------------------------------------
C24_ForwardToDoneOrFallbackDone ==
    /\ [][StageOf(pc') > StageOf(pc)]_vars
    /\ [](pc = "Solving" => eligible # <<>>)
    /\ [](ReturnedDecisions # <<>> => (precedence_order # <<>> \/ sorted_trains # <<>> \/ failed_in # None))
    /\ [](pc = "FallbackDone" => failed_in # None)
    /\ [](Finished => pc \in {"Done", "FallbackDone"})

\* ------------------------------------------------------------------------
\* A call of optimize up to the return of solver.Solve
\* ------------------------------------------------------------------------
NextSolver ==
    \/ Call
    \/ Filter
    \/ SolveFound
    \/ SolveInfeasible
    \/ SolveTimeout

SolverSpec == Init /\ [][NextSolver]_vars

\* eligible trains (0-based) on one section
SameSection(i, j) ==
    i # j /\ eligible[i + 1].current_section = eligible[j + 1].current_section

Accepted == status \in {"OPTIMAL", "FEASIBLE"}

\* ------------------------------------------------------------------------
\* C25: in every accepted assignment, exactly one of before(i,j) and
\* before(j,i) is true for distinct eligible trains i, j on one section.
\* ------------------------------------------------------------------------
C25_ExactlyOneOrderPerConflictingPair ==
    Accepted =>
        \A i, j \in 0..Len(eligible) - 1 :
            SameSection(i, j) =>
                \/ before[<<i, j>>] = 1 /\ before[<<j, i>>] = 0
                \/ before[<<i, j>>] = 0 /\ before[<<j, i>>] = 1

\* three trains of one priority on one section, the first and the third of
\* the list ordered third before first
C25_Witness ==
    /\ Accepted
    /\ Len(eligible) = 3
    /\ \A i, j \in 0..2 : i # j => (SameSection(i, j) /\ eligible[i + 1].priority = eligible[j + 1].priority)
    /\ before[<<2, 0>>] = 1
    /\ before[<<0, 2>>] = 0

\* ------------------------------------------------------------------------
\* C26: no constraint of the model fixes before(i,j) for eligible trains i,
\* j that are not on the same section.
\* ------------------------------------------------------------------------
C26_NoConstraintAcrossSections ==
    pc = "Solving" =>
        \A c \in Constraints(eligible) : SameSection(c.i, c.j)

\* ------------------------------------------------------------------------
\* C27: the ranks of the solved path form a total order: among the trains of
\* one section before is acyclic and transitive, their ranks are pairwise
\* distinct, and some train has rank 0.
\* ------------------------------------------------------------------------
C27_RanksFormTotalOrder ==
    (Accepted /\ eligible # <<>>) =>
        LET n == Len(eligible)
        IN /\ \A i, j, k \in 0..n - 1 :
                (SameSection(i, j) /\ SameSection(j, k) /\ i # k
                 /\ before[<<i, j>>] = 1 /\ before[<<j, k>>] = 1) => before[<<i, k>>] = 1
           /\ \A i, j \in 0..n - 1 :
                SameSection(i, j) => Position(before, n, i) # Position(before, n, j)
           /\ \E i \in 0..n - 1 : Position(before, n, i) = 0

\* ------------------------------------------------------------------------
\* C30: the exclusivity and priority constraints are satisfiable for every
\* set of eligible trains; the model is infeasible exactly when the sum of
\* priority * 10 * delay_minutes is outside 0..10000; all feasible
\* assignments have the same objective value.
\* ------------------------------------------------------------------------
C30_InfeasibleIffObjectiveOutOfRange ==
    LET sum == SumOf([k \in DOMAIN eligible |->
                        10 * eligible[k].priority * eligible[k].delay_minutes],
                     DOMAIN eligible)
        in_range == 0 <= sum /\ sum <= 10000
    IN /\ pc = "Solving" =>
            /\ in_range => \E a \in Solutions(eligible) : Objective(eligible, a) = sum
            /\ ~in_range =>
                  /\ Solutions(eligible) = {}
                  /\ \E a \in [PrecedenceVars(eligible) -> {0, 1}] :
                        \A c \in Constraints(eligible) : Holds(a, c)
       /\ status = "INFEASIBLE" => ~in_range
       /\ Accepted => (in_range /\ Objective(eligible, before) = sum)

\* the weighted delay of the eligible trains exceeds 10000 and the call went
\* to the heuristic with status INFEASIBLE
C30_Witness ==
    /\ pc = "Heuristic"
    /\ status = "INFEASIBLE"
    /\ SumDelayTerms(eligible) > 10000
    /\ Len(eligible) > 1

\* ------------------------------------------------------------------------
\* _trains_compete_for_resource on any two trains
\* ------------------------------------------------------------------------
\* the trains of the fleet and a second train without a section
CompeteArgs == Fleet \cup { Train(11, "freight", 60, None, "stopped", 0, 1) }

InitCompete ==
    /\ OptimizerIdle
    /\ pc = "Competing"
    /\ given_decisions = <<>>
    /\ train_args = <<>>
    /\ new_train = <<>>
    /\ section = Section("S1", 80, 1, "available")
    /\ accommodates = <<>>
    /\ available = <<>>
    /\ competes = <<>>
    /\ EmptyNetwork
    /\ NoMetricCall
    /\ instance = RailwayOptimizer(30)
    /\ calls = <<>>

\* self._trains_compete_for_resource(train1, train2, system_state)
TrainsCompete ==
    /\ pc = "Competing"
    /\ \E train1, train2 \in CompeteArgs :
          competes' = <<[train1 |-> train1, train2 |-> train2,
                         returned |-> _trains_compete_for_resource(train1, train2)]>>
    /\ UNCHANGED <<pc, optimizer_vars, system_objects, metric_values, given_decisions, train_args, new_train, section,
                   accommodates, available, instance, calls>>

CompeteSpec == InitCompete /\ [][TrainsCompete]_vars

\* ------------------------------------------------------------------------
\* C28: two trains compete exactly when both have a current section and the
\* sections are the same one; the answer is the same with the arguments
\* swapped, and the call changes nothing.
\* ------------------------------------------------------------------------
C28_CompeteIffSameSection ==
    /\ \A k \in DOMAIN competes :
          LET call == competes[k]
          IN /\ call.returned <=>
                   /\ call.train1.current_section \in {"S1", "S2"}
                   /\ call.train2.current_section \in {"S1", "S2"}
                   /\ call.train1.current_section = call.train2.current_section
             /\ call.returned = _trains_compete_for_resource(call.train2, call.train1)
    /\ OptimizerIdle
    /\ instance = RailwayOptimizer(30)

\* two different trains on S2 compete
C28_Witness ==
    /\ competes # <<>>
    /\ competes[1].returned
    /\ competes[1].train1.id # competes[1].train2.id
    /\ competes[1].train1.current_section = "S2"

\* ------------------------------------------------------------------------
\* Several calls of optimize interleaved on one RailwayOptimizer instance,
\* each with its own snapshot and its own locals (model, solver,
\* precedence_vars, decisions)
\* ------------------------------------------------------------------------
\* the snapshots of the interleaved calls: no train, one train, two trains
\* with a forced order, two trains with a free order, an infeasible model
ConcurrentSnapshots ==
    { <<>>,
      <<FleetTrain(1)>>,
      <<FleetTrain(1), FleetTrain(2)>>,
      <<FleetTrain(4), FleetTrain(5)>>,
      <<FleetTrain(8)>> }

InitConcurrent ==
    /\ OptimizerIdle
    /\ pc = "Concurrent"
    /\ given_decisions = <<>>
    /\ train_args = <<>>
    /\ new_train = <<>>
    /\ section = Section("S1", 80, 1, "available")
    /\ accommodates = <<>>
    /\ available = <<>>
    /\ competes = <<>>
    /\ EmptyNetwork
    /\ NoMetricCall
    /\ instance = RailwayOptimizer(30)
    /\ calls \in [1..MaxCalls ->
                    { [trains |-> ts, pc |-> "Idle", eligible |-> <<>>, max_time |-> <<>>,
                       status |-> None, before |-> <<>>, failed_in |-> None,
                       result |-> <<>>, raised |-> None] : ts \in ConcurrentSnapshots }]

not_calls == <<pc, optimizer_vars, system_objects, metric_values, given_decisions, train_args, new_train, section,
               accommodates, available, competes>>

\* line 50: the call starts
CallOptimize(c) ==
    /\ calls[c].pc = "Idle"
    /\ calls' = [calls EXCEPT ![c].pc = "Filtering"]
    /\ UNCHANGED <<instance, not_calls>>

\* lines 54-63
CallFilter(c) ==
    /\ calls[c].pc = "Filtering"
    /\ LET e == _get_trains_needing_decisions(calls[c].trains)
       IN calls' = [calls EXCEPT
                      ![c].eligible = e,
                      ![c].result = IF e = <<>>
                                    THEN <<OptimizationResult(<<>>, 0, Q(0, 1), Q(1, 1), Q(0, 1))>>
                                    ELSE @,
                      ![c].pc = IF e = <<>> THEN "Done" ELSE "Solving"]
    /\ UNCHANGED <<instance, not_calls>>

\* lines 113-144, up to the entry of solver.Solve: the model and a solver of
\* the call's own, its time limit read from the instance; the call then waits
\* in Solve, up to the time limit, while other calls take their steps
CallEnterSolve(c) ==
    /\ calls[c].pc = "Solving"
    /\ calls[c].max_time = <<>>
    /\ calls' = [calls EXCEPT ![c].max_time = <<instance.time_limit_seconds>>]
    /\ UNCHANGED <<instance, not_calls>>

\* lines 144-152: Solve returns and status is tested
\* (the mutant keeps the solver in self.solver)
CallSolveFoundKeepingSolver(c) ==
    /\ calls[c].pc = "Solving"
    /\ calls[c].max_time # <<>>
    /\ \E st \in {"OPTIMAL", "FEASIBLE"}, a \in Solutions(calls[c].eligible) :
          /\ calls' = [calls EXCEPT ![c].status = st, ![c].before = a,
                                    ![c].pc = "Extracting"]
          /\ instance' = [instance EXCEPT !.solver = <<[status |-> st, values |-> a]>>]
    /\ UNCHANGED not_calls

CallSolveFound(c) ==
    /\ calls[c].pc = "Solving"
    /\ calls[c].max_time # <<>>
    /\ \E st \in {"OPTIMAL", "FEASIBLE"}, a \in Solutions(calls[c].eligible) :
          calls' = [calls EXCEPT ![c].status = st, ![c].before = a,
                                 ![c].pc = "Extracting"]
    /\ UNCHANGED <<instance, not_calls>>

CallSolveInfeasible(c) ==
    /\ calls[c].pc = "Solving"
    /\ calls[c].max_time # <<>>
    /\ Solutions(calls[c].eligible) = {}
    /\ calls' = [calls EXCEPT ![c].status = "INFEASIBLE", ![c].pc = "Heuristic"]
    /\ UNCHANGED <<instance, not_calls>>

CallSolveTimeout(c) ==
    /\ calls[c].pc = "Solving"
    /\ calls[c].max_time # <<>>
    /\ calls' = [calls EXCEPT ![c].status = "UNKNOWN", ![c].pc = "Heuristic"]
    /\ UNCHANGED <<instance, not_calls>>

\* the decisions of the call's solved or heuristic path, then lines 71-84
CallDecide(c) ==
    /\ calls[c].pc \in {"Extracting", "Heuristic"}
    /\ LET built == IF calls[c].pc = "Extracting"
                    THEN _extract_decisions_from_solution(calls[c].eligible, calls[c].before)
                    ELSE _generate_heuristic_decisions(calls[c].eligible)
       IN IF Raises(built)
          THEN calls' = [calls EXCEPT ![c].failed_in = calls[c].pc, ![c].pc = "Failed"]
          ELSE \E elapsed \in Elapsed :
                  calls' = [calls EXCEPT
                              ![c].result =
                                  <<OptimizationResult(built, _calculate_delay_reduction(built),
                                                       _calculate_throughput_improvement(built),
                                                       _calculate_confidence(built, calls[c].trains),
                                                       elapsed)>>,
                              ![c].pc = "Done"]
    /\ UNCHANGED <<instance, not_calls>>

\* lines 86-89: the except clause
CallFallback(c) ==
    /\ calls[c].pc = "Failed"
    /\ LET built == FallbackDecisions(calls[c].trains)
       IN IF Raises(built)
          THEN calls' = [calls EXCEPT ![c].raised = "TypeError", ![c].pc = "Raised"]
          ELSE calls' = [calls EXCEPT
                           ![c].result = <<OptimizationResult(built, 0, Q(0, 1), Q(3, 10), Q(0, 1))>>,
                           ![c].pc = "FallbackDone"]
    /\ UNCHANGED <<instance, not_calls>>

NextConcurrent ==
    \E c \in DOMAIN calls :
        \/ CallOptimize(c)
        \/ CallFilter(c)
        \/ CallEnterSolve(c)
        \/ CallSolveFound(c)
        \/ CallSolveInfeasible(c)
        \/ CallSolveTimeout(c)
        \/ CallDecide(c)
        \/ CallFallback(c)

ConcurrentSpec == InitConcurrent /\ [][NextConcurrent]_vars

\* what optimize(snapshot) can end with when it runs alone: its result or
\* the exception that leaves it
OptimizeAlone(system_trains) ==
    LET e == _get_trains_needing_decisions(system_trains)
        builds == { _extract_decisions_from_solution(e, a) : a \in Solutions(e) }
                    \cup { _generate_heuristic_decisions(e) }
        After(built) ==
            IF ~Raises(built)
            THEN { [result |-> <<OptimizationResult(built, _calculate_delay_reduction(built),
                                                    _calculate_throughput_improvement(built),
                                                    _calculate_confidence(built, system_trains),
                                                    elapsed)>>,
                    raised |-> None] : elapsed \in Elapsed }
            ELSE IF Raises(FallbackDecisions(system_trains))
            THEN { [result |-> <<>>, raised |-> "TypeError"] }
            ELSE { [result |-> <<OptimizationResult(FallbackDecisions(system_trains),
                                                    0, Q(0, 1), Q(3, 10), Q(0, 1))>>,
                    raised |-> None] }
    IN IF e = <<>>
       THEN { [result |-> <<OptimizationResult(<<>>, 0, Q(0, 1), Q(1, 1), Q(0, 1))>>,
               raised |-> None] }
       ELSE UNION { After(built) : built \in builds }

CallFinished(c) == calls[c].pc \in {"Done", "FallbackDone", "Raised"}

\* ------------------------------------------------------------------------
\* C29: calls of optimize share no mutable state: no step of a call changes
\* the instance (time_limit_seconds, solver), and each of several
\* interleaved calls ends as it can end when run alone on its snapshot.
\* ------------------------------------------------------------------------
C29_InterleavedCallsEndAsAlone ==
    /\ instance = RailwayOptimizer(30)
    /\ \A c \in DOMAIN calls :
          /\ calls[c].max_time \in {<<>>, <<30>>}
          /\ CallFinished(c) =>
                [result |-> calls[c].result, raised |-> calls[c].raised]
                    \in OptimizeAlone(calls[c].trains)

\* two calls on different snapshots have both ended, one after an accepted
\* assignment and one after a timeout, each with a solve step taken while
\* the other call was under way
C29_Witness ==
    /\ DOMAIN calls # {}
    /\ CallFinished(1) /\ CallFinished(2)
    /\ calls[1].trains # calls[2].trains
    /\ calls[1].status = "OPTIMAL"
    /\ calls[2].status = "UNKNOWN"
    /\ calls[1].raised = "TypeError"

====
